---- MODULE Spec2Model ----
(***************************************************************************)
(* A model of the ESRGAN repository: the SRGAN class of srgan.py (its      *)
(* constructor and the generator topology) and the DataLoader of util.py   *)
(* (the candidate pool, __len__, load_batch and the plotting functions     *)
(* that call load_batch with explicit paths).                              *)
(*                                                                         *)
(* Spec covers the calls on a DataLoader, LoadSpec the calls of             *)
(* load_weights and save_weights, TrainSpec a run of train_srgan with the  *)
(* enqueuer that feeds it.                                                 *)
(*                                                                         *)
(* Images are modelled by their shape <<height, width, channels>>; pixel   *)
(* values are not modelled.  A path is modelled by the position of its     *)
(* file in the directory tree FS.                                          *)
(***************************************************************************)
EXTENDS Integers, Sequences, FiniteSets, TLC

\* ------------------------------------------------------------- bounds
\* height_lr given to SRGAN(...) ranges over 1..MaxHeightLr
MaxHeightLr == 2
\* width_lr given to SRGAN(...) ranges over 1..MaxWidthLr
MaxWidthLr == 1
\* upscaling_factor given to SRGAN(...) ranges over 0..MaxFactor
MaxFactor == 8
\* batch_size ranges over 1..MaxBatch
MaxBatch == 2
\* crops_per_image ranges over 1..MaxCrops
MaxCrops == 2
\* the idx given to __getitem__ ranges over 0..MaxIdx
MaxIdx == 1

\* ------------------------------------------------------------- values
Min(a, b) == IF a < b THEN a ELSE b

\* Python's int(a / b) for a >= 0, b > 0: true division, then truncation
\* toward zero.  The quotients of the model are far below 2^53, where the
\* float quotient of two integers truncates to the integer quotient.
IntDiv(a, b) == a \div b

\* PIL's resampling filters (Image.NEAREST, ...)
NEAREST == "NEAREST"
BILINEAR == "BILINEAR"
BICUBIC == "BICUBIC"
LANCZOS == "LANCZOS"

\* ------------------------------------------------------------- file names
\* A file name is a sequence of characters.
UpperOf == [a |-> "A", b |-> "B", c |-> "C", d |-> "D", e |-> "E", g |-> "G",
            j |-> "J", n |-> "N", p |-> "P", t |-> "T", x |-> "X", y |-> "Y"]

\* str.lower() on one character
LowerChar(ch) ==
    IF \E k \in DOMAIN UpperOf : UpperOf[k] = ch
    THEN CHOOSE k \in DOMAIN UpperOf : UpperOf[k] = ch
    ELSE ch

\* str.lower()
Lower(s) == [i \in 1..Len(s) |-> LowerChar(s[i])]

\* Python's `pat in s` on strings: pat occurs somewhere in s
Contains(s, pat) ==
    \E i \in 1..(Len(s) - Len(pat) + 1) : SubSeq(s, i, i + Len(pat) - 1) = pat

\* the list ['jpeg', 'png', 'jpg'] of util.py
FileTypes == {<<"j", "p", "e", "g">>, <<"p", "n", "g">>, <<"j", "p", "g">>}

\* any(filetype in f.lower() for filetype in ['jpeg', 'png', 'jpg'])
NameMatches(f) == \E filetype \in FileTypes : Contains(Lower(f), filetype)

\* ------------------------------------------------------------- the directory tree
\* The files on disk, in the top-down order in which os.walk meets them.
\* kind "image": a decodable raster image of the given size and colour mode;
\* kind "other": a file PIL cannot open as an image.
FS == <<
    [dir |-> <<"train">>, name |-> <<"a", ".", "p", "n", "g">>,
     kind |-> "image", height |-> 16, width |-> 16, mode |-> "RGB"],
    [dir |-> <<"train">>, name |-> <<"p", "n", "g", ".", "t", "x", "t">>,
     kind |-> "other", height |-> 0, width |-> 0, mode |-> "RGB"],
    [dir |-> <<"train">>, name |-> <<"d", ".", "t", "x", "t">>,
     kind |-> "other", height |-> 0, width |-> 0, mode |-> "RGB"],
    [dir |-> <<"train">>, name |-> <<"c", ".", "J", "P", "E", "G">>,
     kind |-> "image", height |-> 16, width |-> 8, mode |-> "L"],
    [dir |-> <<"train", "sub">>, name |-> <<"b", ".", "J", "p", "g">>,
     kind |-> "image", height |-> 8, width |-> 16, mode |-> "RGBA"],
    [dir |-> <<"bad">>, name |-> <<"e", ".", "j", "p", "g">>,
     kind |-> "other", height |-> 0, width |-> 0, mode |-> "RGB"],
    [dir |-> <<"test">>, name |-> <<"x", ".", "p", "n", "g">>,
     kind |-> "image", height |-> 16, width |-> 8, mode |-> "RGB"],
    [dir |-> <<"test">>, name |-> <<"y", ".", "j", "p", "g">>,
     kind |-> "image", height |-> 8, width |-> 16, mode |-> "L"]
>>

\* the directories that exist ("empty" holds no file)
Dirs == {<<"train">>, <<"train", "sub">>, <<"bad">>, <<"test">>, <<"empty">>}

IsPrefix(p, s) == Len(p) <= Len(s) /\ SubSeq(s, 1, Len(p)) = p

\* the positions of FS, in order
Positions == [i \in 1..Len(FS) |-> i]

\* DataLoader.__init__: the os.walk loop that fills self.img_paths
WalkPool(datapath) ==
    LET Keep(i) == IsPrefix(datapath, FS[i].dir) /\ NameMatches(FS[i].name)
    IN  SelectSeq(Positions, Keep)

\* the test_images list of the plotting functions: os.listdir, one level
ListTestImages(datapath_test) ==
    LET Keep(i) == FS[i].dir = datapath_test /\ NameMatches(FS[i].name)
    IN  SelectSeq(Positions, Keep)

\* ------------------------------------------------------------- SRGAN (srgan.py)
\* the factors SRGAN.__init__ accepts: [2, 4, 8]
ValidFactors == {2, 4, 8}

\* channels=3, the default of SRGAN.__init__
Channels == 3

\* residual_blocks=16, the default of build_generator
ResidualBlocks == 16

\* Keras layers, as far as they act on the shape of a tensor
Conv2D(filters, kernel_size, strides) ==
    [op |-> "Conv2D", filters |-> filters, kernel_size |-> kernel_size,
     strides |-> strides, padding |-> "same"]
BatchNormalization == [op |-> "BatchNormalization"]
PReLU == [op |-> "PReLU"]
Add == [op |-> "Add"]

\* SRGAN.SubpixelConv2D: the Lambda layer around tf.depth_to_space
SubpixelConv2D(scale) == [op |-> "SubpixelConv2D", scale |-> scale]

\* subpixel_shape of SubpixelConv2D, without the batch dimension
subpixel_shape(input_shape, scale) ==
    <<input_shape[1] * scale, input_shape[2] * scale,
      IntDiv(input_shape[3], scale * scale)>>

\* residual_block of build_generator
residual_block ==
    <<Conv2D(64, 3, 1), BatchNormalization, PReLU,
      Conv2D(64, 3, 1), BatchNormalization, Add>>

\* upsample of build_generator
upsample == <<Conv2D(256, 3, 1), SubpixelConv2D(2), PReLU>>

\* build_generator with the second and third upsampling stage guarded by
\* `>=` in place of `>`
build_generator_ge(upscaling_factor, channels) ==
    <<  <<Conv2D(64, 9, 1), PReLU>>  >>
    \o [i \in 1..ResidualBlocks |-> residual_block]
    \o <<  <<Conv2D(64, 3, 1), BatchNormalization, Add>>  >>
    \o << upsample >>
    \o (IF upscaling_factor >= 2 THEN << upsample >> ELSE <<>>)
    \o (IF upscaling_factor >= 4 THEN << upsample >> ELSE <<>>)
    \o <<  <<Conv2D(channels, 9, 1)>>  >>

\* SRGAN.build_generator: the blocks of layers between lr_input and
\* hr_output, in order
build_generator(upscaling_factor, channels) ==
    <<  <<Conv2D(64, 9, 1), PReLU>>  >>
    \o [i \in 1..ResidualBlocks |-> residual_block]
    \o <<  <<Conv2D(64, 3, 1), BatchNormalization, Add>>  >>
    \o << upsample >>
    \o (IF upscaling_factor > 2 THEN << upsample >> ELSE <<>>)
    \o (IF upscaling_factor > 4 THEN << upsample >> ELSE <<>>)
    \o <<  <<Conv2D(channels, 9, 1)>>  >>

\* the output shape of one layer: a Conv2D with padding='same' yields
\* ceil(n / strides) per spatial axis and `filters` channels
LayerShape(layer, shape) ==
    CASE layer.op = "Conv2D" ->
            <<(shape[1] + layer.strides - 1) \div layer.strides,
              (shape[2] + layer.strides - 1) \div layer.strides,
              layer.filters>>
      [] layer.op = "SubpixelConv2D" -> subpixel_shape(shape, layer.scale)
      [] OTHER -> shape

\* a tensor shape: height, width, channels
IsShape(shape) == shape \in Nat \X Nat \X Nat

\* the output shape of a block of layers; each layer's output is computed
\* before the next layer is applied to it
RECURSIVE BlockShape(_, _)
BlockShape(layers, shape) ==
    IF layers = <<>> THEN shape
    ELSE LET out == LayerShape(Head(layers), shape)
         IN  IF IsShape(out) THEN BlockShape(Tail(layers), out) ELSE out

\* the shape of model.predict's output for one image of the given shape
RECURSIVE PredictShape(_, _)
PredictShape(blocks, shape) ==
    IF blocks = <<>> THEN shape
    ELSE LET out == BlockShape(Head(blocks), shape)
         IN  IF IsShape(out) THEN PredictShape(Tail(blocks), out) ELSE out

\* the attributes of an SRGAN object before __init__ has set any (0: not set)
NoSelf ==
    [height_lr |-> 0, width_lr |-> 0, upscaling_factor |-> 0,
     height_hr |-> 0, width_hr |-> 0, channels |-> 0, networks |-> {}]

\* SRGAN.__init__ with the factor tested after the generator is built
SRGAN_init_late(height_lr, width_lr, upscaling_factor, training_mode) ==
    LET dims == [NoSelf EXCEPT !.height_lr = height_lr, !.width_lr = width_lr]
        sized == [dims EXCEPT !.upscaling_factor = upscaling_factor,
                              !.height_hr = height_lr * upscaling_factor,
                              !.width_hr = width_lr * upscaling_factor,
                              !.channels = Channels]
        gen == [sized EXCEPT !.networks = {"generator"}]
        full == [gen EXCEPT !.networks = @ \cup {"vgg", "discriminator", "srgan"}]
    IN  IF upscaling_factor \notin ValidFactors
        THEN [self |-> gen, raised |-> "ValueError"]
        ELSE [self |-> IF training_mode THEN full ELSE gen, raised |-> "none"]

\* SRGAN.__init__: the object it leaves and the exception it raises, if any
SRGAN_init(height_lr, width_lr, upscaling_factor, training_mode) ==
    LET dims == [NoSelf EXCEPT !.height_lr = height_lr, !.width_lr = width_lr]
        sized == [dims EXCEPT !.upscaling_factor = upscaling_factor,
                              !.height_hr = height_lr * upscaling_factor,
                              !.width_hr = width_lr * upscaling_factor,
                              !.channels = Channels]
        gen == [sized EXCEPT !.networks = {"generator"}]
        full == [gen EXCEPT !.networks = @ \cup {"vgg", "discriminator", "srgan"}]
    IN  IF upscaling_factor \notin ValidFactors
        THEN [self |-> dims, raised |-> "ValueError"]
        ELSE [self |-> IF training_mode THEN full ELSE gen, raised |-> "none"]

\* ------------------------------------------------------------- DataLoader (util.py)
\* self.options, the filters load_batch draws from
Options == {NEAREST, BILINEAR, BICUBIC, LANCZOS}

\* bands of a PIL image by mode
Bands(mode) == CASE mode = "L" -> 1 [] mode = "RGBA" -> 4 [] OTHER -> 3

\* no DataLoader has been constructed
NoLoader ==
    [datapath |-> <<>>, batch_size |-> 0, height_hr |-> 0, height_lr |-> 0,
     width_hr |-> 0, width_lr |-> 0, scale |-> 0, crops_per_image |-> 0,
     options |-> {}, img_paths |-> <<>>, total_imgs |-> 0]

\* DataLoader.__init__
DataLoader_init(datapath, batch_size, height_hr, width_hr, scale, crops_per_image) ==
    LET found == WalkPool(datapath)
    IN  [datapath |-> datapath, batch_size |-> batch_size,
         height_hr |-> height_hr, height_lr |-> IntDiv(height_hr, scale),
         width_hr |-> width_hr, width_lr |-> IntDiv(width_hr, scale),
         scale |-> scale, crops_per_image |-> crops_per_image,
         options |-> Options, img_paths |-> found, total_imgs |-> Len(found)]

\* __len__ rounding up, as np.ceil(total_imgs / batch_size) would
DataLoader_len_ceil(self) == IntDiv(self.total_imgs + self.batch_size - 1, self.batch_size)

\* DataLoader.__len__
DataLoader_len(self) == IntDiv(self.total_imgs, self.batch_size)

\* DataLoader.load_img: Image.open, convert to RGB, np.array.  The random
\* horizontal flip of training mode keeps the shape.
load_img(path, training) ==
    IF FS[path].kind # "image"
    THEN [raised |-> TRUE, shape |-> <<0, 0, 0>>]
    ELSE LET bands == IF FS[path].mode # "RGB" THEN Bands("RGB") ELSE Bands(FS[path].mode)
         IN  [raised |-> FALSE, shape |-> <<FS[path].height, FS[path].width, bands>>]

\* np.random.randint(0, high): the values it can return (none: it raises ValueError)
RandInt(high) == 0..(high - 1)

\* the slice img[y:(y + dy), x:(x + dx), :]
Slice(shape, y, x, dy, dx) ==
    <<Min(y + dy, shape[1]) - y, Min(x + dx, shape[2]) - x, shape[3]>>

\* DataLoader.random_crop: the exception it raises ("none": it returns):
\* the assert on the channels, or randint on an empty range
random_crop_raises(shape, random_crop_size) ==
    IF shape[3] # 3 THEN "AssertionError"
    ELSE IF RandInt(shape[2] - random_crop_size[2] + 1) = {} THEN "ValueError"
    ELSE IF RandInt(shape[1] - random_crop_size[1] + 1) = {} THEN "ValueError"
    ELSE "none"

\* DataLoader.random_crop: the shapes it can return
random_crop(shape, random_crop_size) ==
    LET height == shape[1]
        width == shape[2]
        dy == random_crop_size[1]
        dx == random_crop_size[2]
    IN  IF random_crop_raises(shape, random_crop_size) # "none" THEN {}
        ELSE {Slice(shape, y, x, dy, dx) :
                 x \in RandInt(width - dx + 1), y \in RandInt(height - dy + 1)}

\* Image.resize(size, method) followed by np.array: size is (width, height)
Resize(shape, size) == <<size[2], size[1], shape[3]>>

\* lines 151-154 of load_batch: the low-resolution image of one crop
Downscale(self, img_hr, method) ==
    LET lr_shape == <<IntDiv(img_hr.shape[2], self.scale),
                      IntDiv(img_hr.shape[1], self.scale)>>
    IN  [path |-> img_hr.path, of |-> img_hr,
         shape |-> Resize(img_hr.shape, lr_shape), method |-> method]

\* the img_paths argument of load_batch: None, or a list of paths
NonePaths == [is_none |-> TRUE, list |-> <<>>]
PathList(l) == [is_none |-> FALSE, list |-> l]

\* Python's truth value of img_paths: a non-empty list
Truthy(img_paths) == ~img_paths.is_none /\ img_paths.list # <<>>

\* the arguments of one call of load_batch, with the function that made it
Args(caller, idx, img_paths, training, bicubic) ==
    [caller |-> caller, idx |-> idx, img_paths |-> img_paths,
     training |-> training, bicubic |-> bicubic]

NoCall == Args("none", 0, NonePaths, TRUE, FALSE)

\* lines 103-106 of load_batch: the starting index
StartIdx(self, c) == IF ~Truthy(c.img_paths) THEN c.idx * self.batch_size ELSE 0

\* the wrap test with `>` in place of `>=`
Wrap_gt(self, c, cur) ==
    IF c.img_paths.is_none /\ cur > self.total_imgs THEN 0 ELSE cur

\* lines 113-115 (and 142-144): the cursor after the wrap test
Wrap(self, c, cur) ==
    IF c.img_paths.is_none /\ cur >= self.total_imgs THEN 0 ELSE cur

\* the loop left at batch_size images whatever img_paths is
BatchDone_batch(self, c, hr) == Len(hr) >= self.batch_size

\* lines 113-119 (and 142-148): whether the loop is left
BatchDone(self, c, hr) ==
    \/ c.img_paths.is_none /\ Len(hr) >= self.batch_size
    \/ ~c.img_paths.is_none /\ Len(hr) = Len(c.img_paths.list)

\* the list load_batch reads its paths from (lines 124-127)
Source(self, c) == IF Truthy(c.img_paths) THEN c.img_paths.list ELSE self.img_paths

\* the cursor is a Python integer; past CursorCap it is kept at CursorCap,
\* where every index is past the end of every list of the model
CursorCap == MaxIdx * MaxBatch + Len(FS) + 1
Advance(cur) == IF cur < CursorCap THEN cur + 1 ELSE cur

\* the loop over img_crops without the tests of lines 142-148: every crop of
\* the image is stored
RECURSIVE StoreCrops_all(_, _, _, _, _, _)
StoreCrops_all(self, c, crops, methods, k, st) ==
    IF k > Len(crops) THEN st
    ELSE StoreCrops_all(self, c, crops, methods, k + 1,
            [cur_idx |-> st.cur_idx,
             imgs_hr |-> Append(st.imgs_hr, crops[k]),
             imgs_lr |-> Append(st.imgs_lr, Downscale(self, crops[k], methods[k]))])

\* lines 139-161 of load_batch: the loop over img_crops, from crop k on
RECURSIVE StoreCrops(_, _, _, _, _, _)
StoreCrops(self, c, crops, methods, k, st) ==
    IF k > Len(crops) THEN st
    ELSE LET cur == Wrap(self, c, st.cur_idx)
         IN  IF BatchDone(self, c, st.imgs_hr)
             THEN [st EXCEPT !.cur_idx = cur]
             ELSE StoreCrops(self, c, crops, methods, k + 1,
                     [cur_idx |-> cur,
                      imgs_hr |-> Append(st.imgs_hr, crops[k]),
                      imgs_lr |-> Append(st.imgs_lr,
                                         Downscale(self, crops[k], methods[k]))])

\* line 151: the filters a call can use
Methods(self, c) == IF c.bicubic THEN {BICUBIC} ELSE self.options

\* lines 130-136 of load_batch: the lists img_crops can be (none when
\* random_crop raises)
CropLists(self, c, path, shape) ==
    IF c.training
    THEN [1..self.crops_per_image ->
            {[path |-> path, shape |-> sh] :
                sh \in random_crop(shape, <<self.height_hr, self.width_hr>>)}]
    ELSE {<<[path |-> path, shape |-> shape]>>}

\* lines 121-161: the outcomes of the try block: what it leaves in
\* (cur_idx, imgs_hr, imgs_lr) and the exception that ends it ("none": it
\* runs to its end)
TryBlock(self, c, st) ==
    LET src == Source(self, c)
    IN  IF st.cur_idx + 1 > Len(src) THEN {[st |-> st, exc |-> "IndexError"]}
        ELSE LET path == src[st.cur_idx + 1]
                 img == load_img(path, c.training)
                 size == <<self.height_hr, self.width_hr>>
             IN  IF img.raised THEN {[st |-> st, exc |-> "OSError"]}
                 ELSE IF c.training /\ random_crop_raises(img.shape, size) # "none"
                 THEN {[st |-> st, exc |-> random_crop_raises(img.shape, size)]}
                 ELSE {[st |-> StoreCrops(self, c, crops, methods, 1, st), exc |-> "none"] :
                          crops \in CropLists(self, c, path, img.shape),
                          methods \in [1..(IF c.training THEN self.crops_per_image ELSE 1)
                                         -> Methods(self, c)]}

\* the classes `except Exception` catches
Exceptions == {"IndexError", "OSError", "ValueError", "AssertionError"}

\* `except IOError: pass`: only a failed load is caught
ExceptPass_io(exc) == IF exc = "OSError" THEN "none" ELSE exc

\* lines 163-165, `except Exception as e: pass`: the exception that leaves
\* the try statement ("none": none does)
ExceptPass(exc) == IF exc \in Exceptions THEN "none" ELSE exc

\* ------------------------------------------------------------- weights (srgan.py)
\* the networks that hold weights, and the models __init__ builds
BaseNetworks == {"generator", "vgg", "discriminator"}

\* the networks a model is made of: build_srgan chains the generator into
\* the vgg and the discriminator
Parts(model) == IF model = "srgan" THEN BaseNetworks ELSE {model}

\* the building and compiling statements of __init__, in order
InitStatements(training_mode) ==
    <<[op |-> "build", model |-> "generator"], [op |-> "compile", model |-> "generator"]>>
    \o (IF training_mode
        THEN <<[op |-> "build", model |-> "vgg"], [op |-> "compile", model |-> "vgg"],
               [op |-> "build", model |-> "discriminator"],
               [op |-> "compile", model |-> "discriminator"],
               [op |-> "build", model |-> "srgan"],
               [op |-> "compile", model |-> "srgan"]>>
        ELSE <<>>)

\* the trainable flags after build_<model>, with build_srgan leaving the
\* discriminator trainable
Build_keep(model, trainable) ==
    CASE model = "vgg" -> [trainable EXCEPT !["vgg"] = FALSE]
      [] model = "srgan" -> trainable
      [] OTHER -> [trainable EXCEPT ![model] = TRUE]

\* the trainable flags after build_<model>: build_vgg ends with
\* model.trainable = False, build_srgan sets self.discriminator.trainable = False
Build(model, trainable) ==
    CASE model = "vgg" -> [trainable EXCEPT !["vgg"] = FALSE]
      [] model = "srgan" -> [trainable EXCEPT !["discriminator"] = FALSE]
      [] OTHER -> [trainable EXCEPT ![model] = TRUE]

\* model.compile: the networks whose weights the model's training step
\* updates are those trainable when it is compiled
Compile(model, trainable) == {n \in Parts(model) : trainable[n]}

\* nothing built, nothing compiled
NothingCompiled ==
    [trainable |-> [n \in BaseNetworks |-> FALSE],
     collected |-> [m \in BaseNetworks \cup {"srgan"} |-> {}]]

\* the trainable flags and the compiled models after the statements
RECURSIVE RunStatements(_, _)
RunStatements(stmts, k) ==
    IF stmts = <<>> THEN k
    ELSE LET s == Head(stmts)
             after == IF s.op = "build"
                      THEN [k EXCEPT !.trainable = Build(s.model, k.trainable)]
                      ELSE [k EXCEPT !.collected[s.model] = Compile(s.model, k.trainable)]
         IN  RunStatements(Tail(stmts), after)

\* for each model, the networks its train_on_batch updates
Collected(training_mode) == RunStatements(InitStatements(training_mode), NothingCompiled).collected

\* the weights of a network: the file they were loaded from ("init": the
\* initialization, "imagenet": VGG19(weights="imagenet"), "absent": the
\* network is not built) and the number of updates since
Fresh(self) ==
    [n \in BaseNetworks |->
        [from |-> IF n \notin self.networks THEN "absent"
                  ELSE IF n = "vgg" THEN "imagenet" ELSE "init",
         updates |-> 0]]

\* model.train_on_batch: one update of the weights collected at compile time
train_on_batch(model, w, collected) ==
    [n \in BaseNetworks |->
        IF n \in collected[model] THEN [w[n] EXCEPT !.updates = @ + 1] ELSE w[n]]

\* an argument that is either None or a string
None == [is_none |-> TRUE, text |-> ""]
Str(text) == [is_none |-> FALSE, text |-> text]

\* Python's truth value of such an argument
TruthyStr(arg) == ~arg.is_none /\ arg.text # ""

\* "{}".format(e) for an epoch number or None
Format(e) == IF e = -1 THEN "None" ELSE ToString(e)

\* os.path.join(a, b) for a relative b: a separator is added unless a ends with one
EndWithSeparator == {"./data/weights/", "./"}
os_path_join(a, b) == IF a = "" \/ a \in EndWithSeparator THEN a \o b ELSE a \o "/" \o b

\* SRGAN.load_weights that loads the discriminator whenever it loads the generator
load_weights_both(self, w, generator_weights, discriminator_weights) ==
    LET g == IF TruthyStr(generator_weights)
             THEN [w EXCEPT !["generator"] = [from |-> generator_weights.text, updates |-> 0],
                            !["discriminator"] = [from |-> generator_weights.text, updates |-> 0]]
             ELSE w
    IN  IF ~TruthyStr(discriminator_weights) THEN [weights |-> g, raised |-> "none"]
        ELSE IF "discriminator" \notin self.networks
        THEN [weights |-> g, raised |-> "AttributeError"]
        ELSE [weights |-> [g EXCEPT !["discriminator"] =
                              [from |-> discriminator_weights.text, updates |-> 0]],
              raised |-> "none"]

\* SRGAN.load_weights: the weights it leaves and the exception it raises
load_weights(self, w, generator_weights, discriminator_weights) ==
    LET g == IF TruthyStr(generator_weights)
             THEN [w EXCEPT !["generator"] = [from |-> generator_weights.text, updates |-> 0]]
             ELSE w
    IN  IF ~TruthyStr(discriminator_weights) THEN [weights |-> g, raised |-> "none"]
        ELSE IF "discriminator" \notin self.networks
        THEN [weights |-> g, raised |-> "AttributeError"]
        ELSE [weights |-> [g EXCEPT !["discriminator"] =
                              [from |-> discriminator_weights.text, updates |-> 0]],
              raised |-> "none"]

\* the name save_weights gives a network's file
WeightFile(filepath, network, upscaling_factor, e) ==
    filepath \o "_" \o network \o "_" \o ToString(upscaling_factor) \o "X_epoch"
    \o Format(e) \o ".h5"

\* SRGAN.save_weights(filepath, e) (e = -1: None): the files it writes, each
\* with the weights it holds, and the exception it raises
save_weights(self, w, filepath, e) ==
    LET gen == [name |-> WeightFile(filepath, "generator", self.upscaling_factor, e),
                weights |-> w["generator"]]
        dis == [name |-> WeightFile(filepath, "discriminator", self.upscaling_factor, e),
                weights |-> w["discriminator"]]
    IN  IF "discriminator" \notin self.networks
        THEN [written |-> {gen}, raised |-> "AttributeError"]
        ELSE [written |-> {gen, dis}, raised |-> "none"]

\* ------------------------------------------------------------- train_srgan (srgan.py)
\* train_srgan is called with epochs in 1..MaxEpochs, workers in
\* 1..MaxWorkers and max_queue_size in 1..MaxQueue
MaxEpochs == 2
MaxWorkers == 2
MaxQueue == 1

\* the values first_epoch, log_weight_frequency (0: None) and
\* log_test_frequency are drawn from
FirstEpochs == {0, 1}
WeightFrequencies == {0, 1, 2}
TestFrequencies == {1, 2}

\* the values print_frequency is drawn from
PrintFrequencies == {1, 2}

\* the directories datapath_train is drawn from
TrainDirs == {<<"test">>, <<"bad">>, <<"empty">>}

\* the values of datapath_test: None, a directory that exists, one that does not
TestDirs == {<<>>, <<"test">>, <<"missing">>}

\* n draws from 0..(n - 1), each independent of the others
Shuffles_draws(n) == [1..n -> 0..(n - 1)]

\* the permutations of 0..(n - 1): what random.shuffle can leave
Shuffles(n) ==
    {s \in [1..n -> 0..(n - 1)] : \A i, j \in 1..n : i # j => s[i] # s[j]}

\* no enqueuer
NoEnqueuer ==
    [running |-> FALSE, n |-> 0, workers |-> 0, max_queue_size |-> 0,
     thread |-> "none", pass |-> 0, order |-> <<>>, pos |-> 0,
     tasks |-> <<>>, got |-> 0, held |-> 0]

\* OrderedEnqueuer(loader, use_multiprocessing=False, shuffle=True) followed
\* by start(workers, max_queue_size): a queue of max_queue_size futures, a
\* pool of `workers` threads and the thread that feeds the queue.
\* tasks: the futures in the order submitted, [idx, pass, st], st being
\* "pending", "running" or "done"; the first `got` of them (0 or 1) has been
\* taken from the queue by get(), the last `held` of them (0 or 1) is not
\* yet in the queue, the others are in the queue.
Enqueuer_start(sequence_len, workers, max_queue_size) ==
    [running |-> TRUE, n |-> sequence_len, workers |-> workers,
     max_queue_size |-> max_queue_size,
     thread |-> "shuffle", pass |-> 0, order |-> <<>>, pos |-> 0,
     tasks |-> <<>>, got |-> 0, held |-> 0]

\* the number of futures in the queue
QueueSize(e) == Len(e.tasks) - e.got - e.held

\* a queue that never blocks put
QueueFull_never(e) == FALSE

\* queue.Queue(max_queue_size): put blocks while the queue holds max_queue_size items
QueueFull(e) == QueueSize(e) >= e.max_queue_size

\* the passes started are counted up to PassCap
PassCap == MaxEpochs + 1

\* the futures a thread of the pool is computing
Running(e) == {i \in 1..Len(e.tasks) : e.tasks[i].st = "running"}

\* the future the pool starts next: the first submitted that no thread has taken
NextPending(e) ==
    LET pending == {i \in 1..Len(e.tasks) : e.tasks[i].st = "pending"}
    IN  IF pending = {} THEN 0 ELSE CHOOSE i \in pending : \A j \in pending : i <= j

\* whether loader[idx] returns: load_batch leaves its loop only when a file of
\* the pool has loaded and has been cropped
Returns(self) ==
    \E k \in 1..Len(self.img_paths) :
        LET img == load_img(self.img_paths[k], TRUE)
        IN  /\ ~img.raised
            /\ random_crop_raises(img.shape, <<self.height_hr, self.width_hr>>) = "none"

\* print_losses = {"G": [], "D": []} (lines 494 and 536)
NoLosses == [G |-> <<>>, D |-> <<>>]

\* lines 523-536: the losses of iteration e are appended to both histories;
\* when e is a multiple of print_frequency the averages are printed and the
\* histories are emptied
Accumulate(losses, e, print_frequency) ==
    LET appended == [G |-> Append(losses.G, e), D |-> Append(losses.D, e)]
    IN  IF e % print_frequency = 0 THEN NoLosses ELSE appended

\* no call of load_weights or save_weights
NoWeightCall == [method |-> "none"]

\* the arguments of train_srgan
NoTrainArgs ==
    [epochs |-> 0, batch_size |-> 0, dataname |-> "", datapath_train |-> <<>>,
     datapath_test |-> <<>>, workers |-> 0, max_queue_size |-> 0, first_epoch |-> 0,
     log_weight_frequency |-> 0, log_weight_path |-> "", log_tensorboard_path |-> None,
     log_test_frequency |-> 0, print_frequency |-> 0]

\* lines 508-517: the network operations of iteration e on batch b, in order
Iteration(e, b) ==
    <<[epoch |-> e, batch |-> b, op |-> "generator.predict", x |-> "imgs_lr", y |-> ""],
      [epoch |-> e, batch |-> b, op |-> "discriminator.train_on_batch", x |-> "imgs_hr",
       y |-> "real"],
      [epoch |-> e, batch |-> b, op |-> "discriminator.train_on_batch", x |-> "generated_hr",
       y |-> "fake"],
      [epoch |-> e, batch |-> b, op |-> "vgg.predict", x |-> "imgs_hr", y |-> ""],
      [epoch |-> e, batch |-> b, op |-> "srgan.train_on_batch", x |-> "imgs_lr",
       y |-> "real, features_hr"]>>

\* the weights after the operations
RECURSIVE Apply(_, _, _)
Apply(ops, w, collected) ==
    IF ops = <<>> THEN w
    ELSE LET o == Head(ops)
         IN  Apply(Tail(ops),
                   CASE o.op = "discriminator.train_on_batch" ->
                            train_on_batch("discriminator", w, collected)
                     [] o.op = "srgan.train_on_batch" -> train_on_batch("srgan", w, collected)
                     [] OTHER -> w,
                   collected)

\* plot_test_images(self, loader, datapath_test, ...): the exception it
\* raises ("none": it returns); os.listdir raises on a missing directory
plot_test_images(datapath_test) ==
    IF datapath_test \notin Dirs THEN "FileNotFoundError" ELSE "none"

\* `frequency and epoch % frequency == 0`
Due(frequency, e) == frequency # 0 /\ e % frequency = 0

\* ------------------------------------------------------------- state
VARIABLES
    gan,        \* the SRGAN object (NoSelf: not constructed)
    gan_args,   \* the arguments SRGAN(...) was called with (NoArgs: not called)
    gan_raised, \* the exception SRGAN(...) raised: "none" or "ValueError"
    loader,     \* the DataLoader (NoLoader: not constructed)
    pc,         \* "idle", "check" / "body" (in load_batch's while loop),
                \* "loaded" (load_batch returned to a plotting function),
                \* "done" (the call returned), "raised" (the call raised)
    call,       \* the arguments of the running or last call on the loader
    cur_idx,    \* load_batch's cur_idx
    imgs_hr,    \* load_batch's imgs_hr
    imgs_lr,    \* load_batch's imgs_lr
    imgs_sr,    \* the generator's predictions in a plotting function
    length,     \* the value __len__ returned (-1: none)
    raised,     \* the exception the call on the loader raised ("none": none)
    weights,    \* the networks' weights: where they come from and the updates since
    files,      \* the weight files written by save_weights
    w_call,     \* the last call of load_weights or save_weights, with its arguments
    t_args,     \* the arguments train_srgan was called with (NoTrainArgs: not called)
    t_pc,       \* the position in train_srgan, or of the call on the SRGAN object
    epoch,      \* train_srgan's loop variable
    enq,        \* the OrderedEnqueuer train_srgan started (NoEnqueuer: none)
    batch,      \* the batch next(output_generator) returned last
    steps,      \* the network operations of the iterations, in the order performed
    saves,      \* the iterations at which train_srgan called save_weights, in order
    print_losses, \* train_srgan's print_losses: the loss histories G and D
    t_raised    \* the exception the call on the SRGAN object raised ("none": none)

\* the state of the DataLoader scenarios
lvars == <<gan_args, gan_raised, pc, call, cur_idx, imgs_hr, imgs_lr, imgs_sr, length, raised>>

\* the state of the training scenarios
tvars == <<weights, files, w_call, t_args, t_pc, epoch, enq, batch, steps, saves,
          print_losses, t_raised>>

vars == <<gan, gan_args, gan_raised, loader, pc, call, cur_idx, imgs_hr, imgs_lr, imgs_sr,
          length, raised, weights, files, w_call, t_args, t_pc, epoch, enq, batch, steps, saves,
          print_losses, t_raised>>

NoArgs == [height_lr |-> 0, width_lr |-> 0, upscaling_factor |-> 0]

Init ==
    /\ gan = NoSelf
    /\ gan_args = NoArgs
    /\ gan_raised = "none"
    /\ loader = NoLoader
    /\ pc = "idle"
    /\ call = NoCall
    /\ cur_idx = 0
    /\ imgs_hr = <<>>
    /\ imgs_lr = <<>>
    /\ imgs_sr = <<>>
    /\ length = -1
    /\ raised = "none"
    /\ weights = Fresh(NoSelf)
    /\ files = {}
    /\ w_call = NoWeightCall
    /\ t_args = NoTrainArgs
    /\ t_pc = "idle"
    /\ epoch = 0
    /\ enq = NoEnqueuer
    /\ batch = <<>>
    /\ steps = <<>>
    /\ saves = <<>>
    /\ print_losses = NoLosses
    /\ t_raised = "none"

Constructed == gan.networks # {} /\ gan_raised = "none"

\* gan = SRGAN(height_lr, width_lr, upscaling_factor=...), with the default
\* training_mode=True
SRGAN_new ==
    /\ gan_args = NoArgs
    /\ \E height_lr \in 1..MaxHeightLr, width_lr \in 1..MaxWidthLr,
          upscaling_factor \in 0..MaxFactor :
          LET r == SRGAN_init(height_lr, width_lr, upscaling_factor, TRUE)
          IN  /\ gan_args' = [height_lr |-> height_lr, width_lr |-> width_lr,
                            upscaling_factor |-> upscaling_factor]
              /\ gan' = r.self
              /\ gan_raised' = r.raised
    /\ UNCHANGED tvars
    /\ UNCHANGED <<loader, pc, call, cur_idx, imgs_hr, imgs_lr, imgs_sr, length, raised>>

\* loader = DataLoader(datapath, batch_size, self.height_hr, self.width_hr,
\*                     self.upscaling_factor, crops_per_image)
\* as train_generator, train_srgan and test construct it
DataLoader_new ==
    /\ Constructed /\ loader = NoLoader
    /\ \E datapath \in Dirs, batch_size \in 1..MaxBatch, crops_per_image \in 1..MaxCrops :
          loader' = DataLoader_init(datapath, batch_size, gan.height_hr, gan.width_hr,
                                    gan.upscaling_factor, crops_per_image)
    /\ UNCHANGED tvars
    /\ UNCHANGED <<gan, gan_args, gan_raised, pc, call, cur_idx, imgs_hr, imgs_lr, imgs_sr,
                   length, raised>>

CanCall == loader # NoLoader /\ pc \in {"idle", "done"}

\* len(loader)
Len_call ==
    /\ CanCall
    /\ call' = Args("__len__", 0, NonePaths, TRUE, FALSE)
    /\ length' = DataLoader_len(loader)
    /\ pc' = "done"
    /\ cur_idx' = 0 /\ imgs_hr' = <<>> /\ imgs_lr' = <<>> /\ imgs_sr' = <<>>
    /\ raised' = "none"
    /\ UNCHANGED tvars
    /\ UNCHANGED <<gan, gan_args, gan_raised, loader>>

\* lines 103-109 of load_batch
Enter(c) ==
    /\ call' = c
    /\ cur_idx' = StartIdx(loader, c)
    /\ imgs_hr' = <<>> /\ imgs_lr' = <<>> /\ imgs_sr' = <<>>
    /\ length' = -1
    /\ pc' = "check"
    /\ raised' = "none"
    /\ UNCHANGED tvars
    /\ UNCHANGED <<gan, gan_args, gan_raised, loader>>

\* loader[idx]: __getitem__ calls load_batch(idx=idx)
GetItem ==
    /\ CanCall
    /\ \E idx \in 0..MaxIdx : Enter(Args("__getitem__", idx, NonePaths, TRUE, FALSE))

\* plot_test_images: load_batch(img_paths=test_images, training=False, bicubic=True)
PlotTestImages ==
    /\ CanCall
    /\ \E datapath_test \in Dirs :
          Enter(Args("plot_test_images", 0, PathList(ListTestImages(datapath_test)),
                     FALSE, TRUE))

\* plot_bigger_images: load_batch(img_paths=test_images, training=False, bicubic=False)
PlotBiggerImages ==
    /\ CanCall
    /\ \E datapath_test \in Dirs :
          Enter(Args("plot_bigger_images", 0, PathList(ListTestImages(datapath_test)),
                     FALSE, FALSE))

\* compute_metric: load_batch(img_paths=test_images, training=False, bicubic=True)
ComputeMetric ==
    /\ CanCall
    /\ \E datapath_test \in Dirs :
          Enter(Args("compute_metric", 0, PathList(ListTestImages(datapath_test)),
                     FALSE, TRUE))

\* lines 110-119 and, when the loop is left, 169-176 of load_batch
LoopCheck ==
    /\ pc = "check"
    /\ cur_idx' = Wrap(loader, call, cur_idx)
    /\ pc' = IF BatchDone(loader, call, imgs_hr)
             THEN (IF call.caller = "__getitem__" THEN "done" ELSE "loaded")
             ELSE "body"
    /\ UNCHANGED tvars
    /\ UNCHANGED <<gan, gan_args, gan_raised, loader, call, imgs_hr, imgs_lr, imgs_sr,
                   length, raised>>

\* a file that fails is taken out of the pool
load_batch_self_drop(self, cur, exc) ==
    IF exc = "none" \/ cur < 0 \/ cur >= Len(self.img_paths) THEN self
    ELSE [self EXCEPT !.img_paths = SubSeq(@, 1, cur) \o SubSeq(@, cur + 2, Len(@)),
                      !.total_imgs = @ - 1]

\* the DataLoader after one pass of the loop body on file cur: load_batch,
\* load_img and random_crop assign no attribute of self
load_batch_self(self, cur, exc) == self

\* lines 121-167 of load_batch: try, except Exception: pass, finally cur_idx += 1
LoopBody ==
    /\ pc = "body"
    /\ \E out \in TryBlock(loader, call,
                           [cur_idx |-> cur_idx, imgs_hr |-> imgs_hr, imgs_lr |-> imgs_lr]) :
          /\ cur_idx' = Advance(out.st.cur_idx)
          /\ imgs_hr' = out.st.imgs_hr
          /\ imgs_lr' = out.st.imgs_lr
          /\ raised' = ExceptPass(out.exc)
          /\ pc' = IF ExceptPass(out.exc) = "none" THEN "check" ELSE "raised"
          /\ loader' = load_batch_self(loader, cur_idx, out.exc)
    /\ UNCHANGED tvars
    /\ UNCHANGED <<gan, gan_args, gan_raised, call, imgs_sr, length>>

\* the image the plotting function gives to model.generator.predict for
\* test image i: imgs_lr[i], or in plot_bigger_images the image imgs_hr[i]
PredictInput(c, i) ==
    IF c.caller = "plot_bigger_images" THEN imgs_hr[i].shape ELSE imgs_lr[i].shape

\* the prediction loop of plot_test_images, plot_bigger_images and compute_metric
Predict ==
    /\ pc = "loaded"
    /\ imgs_sr' = [i \in 1..Len(call.img_paths.list) |->
                      PredictShape(build_generator(gan.upscaling_factor, gan.channels),
                                   PredictInput(call, i))]
    /\ pc' = "done"
    /\ UNCHANGED tvars
    /\ UNCHANGED <<gan, gan_args, gan_raised, loader, call, cur_idx, imgs_hr, imgs_lr,
                   length, raised>>

Next ==
    \/ SRGAN_new
    \/ DataLoader_new
    \/ Len_call
    \/ GetItem
    \/ PlotTestImages
    \/ PlotBiggerImages
    \/ ComputeMetric
    \/ LoopCheck
    \/ LoopBody
    \/ Predict

Spec == Init /\ [][Next]_vars

\* the interpreter keeps executing load_batch's loop
FairSpec == Spec /\ WF_vars(LoopCheck) /\ WF_vars(LoopBody)

\* ------------------------------------------------------------- weight files
\* the variables of the DataLoader and training scenarios at rest, around a
\* constructed SRGAN object
AtRest(height_lr, width_lr, upscaling_factor, training_mode) ==
    /\ gan = SRGAN_init(height_lr, width_lr, upscaling_factor, training_mode).self
    /\ gan_args = [height_lr |-> height_lr, width_lr |-> width_lr,
                   upscaling_factor |-> upscaling_factor]
    /\ gan_raised = "none"
    /\ loader = NoLoader
    /\ pc = "idle"
    /\ call = NoCall
    /\ cur_idx = 0
    /\ imgs_hr = <<>>
    /\ imgs_lr = <<>>
    /\ imgs_sr = <<>>
    /\ length = -1
    /\ raised = "none"
    /\ weights = Fresh(gan)
    /\ files = {}
    /\ w_call = NoWeightCall
    /\ t_args = NoTrainArgs
    /\ t_pc = "idle"
    /\ epoch = 0
    /\ enq = NoEnqueuer
    /\ batch = <<>>
    /\ steps = <<>>
    /\ saves = <<>>
    /\ print_losses = NoLosses
    /\ t_raised = "none"

\* gan = SRGAN(1, 1, upscaling_factor=..., training_mode=...)
LoadInit ==
    \E upscaling_factor \in ValidFactors, training_mode \in BOOLEAN :
        AtRest(1, 1, upscaling_factor, training_mode)

\* the values load_weights' arguments are drawn from
WeightArgs == {None, Str(""), Str("w.h5")}

\* the values save_weights' arguments are drawn from (e = -1: None)
SavePaths == {"./data/weights/"}
SaveEpochs == {-1, 0}

\* the files after `written` has been written over them
Written(fs, written) ==
    {f \in fs : \A g \in written : g.name # f.name} \cup written

\* gan.load_weights(generator_weights, discriminator_weights)
LoadWeights ==
    /\ t_pc \in {"idle", "returned", "raised"}
    /\ \E generator_weights \in WeightArgs, discriminator_weights \in WeightArgs :
          LET r == load_weights(gan, weights, generator_weights, discriminator_weights)
          IN  /\ weights' = r.weights
              /\ t_raised' = r.raised
              /\ t_pc' = IF r.raised = "none" THEN "returned" ELSE "raised"
              /\ w_call' = [method |-> "load_weights",
                            generator_weights |-> generator_weights,
                            discriminator_weights |-> discriminator_weights]
    /\ UNCHANGED <<gan, loader, files, t_args, epoch, enq, batch, steps, saves>>
    /\ UNCHANGED <<print_losses>>
    /\ UNCHANGED lvars

\* gan.save_weights(filepath, e)
SaveWeights ==
    /\ t_pc \in {"idle", "returned", "raised"}
    /\ \E filepath \in SavePaths, e \in SaveEpochs :
          LET r == save_weights(gan, weights, filepath, e)
          IN  /\ files' = Written(files, r.written)
              /\ t_raised' = r.raised
              /\ t_pc' = IF r.raised = "none" THEN "returned" ELSE "raised"
              /\ w_call' = [method |-> "save_weights", filepath |-> filepath, e |-> e]
    /\ UNCHANGED <<gan, loader, weights, t_args, epoch, enq, batch, steps, saves>>
    /\ UNCHANGED <<print_losses>>
    /\ UNCHANGED lvars

LoadNext ==
    \/ LoadWeights
    \/ SaveWeights

LoadSpec == LoadInit /\ [][LoadNext]_vars

\* ------------------------------------------------------------- train_srgan
\* gan = SRGAN(height_lr=1, width_lr=1): upscaling_factor=4, training_mode=True
TrainInit == AtRest(1, 1, 4, TRUE)

\* train_srgan up to its loop (lines 437-499): the DataLoader, the enqueuer
\* started, the tensorboard callback, idxs = np.random.randint(0, len(loader), epochs)
TrainStart ==
    /\ t_pc = "idle" /\ t_args = NoTrainArgs
    /\ \E epochs \in 1..MaxEpochs, batch_size \in 1..MaxBatch,
          datapath_train \in TrainDirs, datapath_test \in TestDirs,
          workers \in 1..MaxWorkers, max_queue_size \in 1..MaxQueue,
          first_epoch \in FirstEpochs, log_weight_frequency \in WeightFrequencies,
          log_tensorboard_path \in {None, Str("./data/logs/")},
          log_test_frequency \in TestFrequencies,
          print_frequency \in PrintFrequencies :
          LET ld == DataLoader_init(datapath_train, batch_size, gan.height_hr, gan.width_hr,
                                    gan.upscaling_factor, 1)
              exc == IF "srgan" \notin gan.networks THEN "AttributeError"
                     ELSE IF RandInt(DataLoader_len(ld)) = {} THEN "ValueError"
                     ELSE "none"
          IN  /\ t_args' = [epochs |-> epochs, batch_size |-> batch_size,
                            dataname |-> "DIV2K", datapath_train |-> datapath_train,
                            datapath_test |-> datapath_test, workers |-> workers,
                            max_queue_size |-> max_queue_size, first_epoch |-> first_epoch,
                            log_weight_frequency |-> log_weight_frequency,
                            log_weight_path |-> "./data/weights/",
                            log_tensorboard_path |-> log_tensorboard_path,
                            log_test_frequency |-> log_test_frequency,
                            print_frequency |-> print_frequency]
              /\ loader' = ld
              /\ enq' = Enqueuer_start(DataLoader_len(ld), workers, max_queue_size)
              /\ epoch' = first_epoch
              /\ t_raised' = exc
              /\ t_pc' = IF exc = "none" THEN "next" ELSE "raised"
    /\ UNCHANGED <<gan, weights, files, w_call, batch, steps, saves>>
    /\ UNCHANGED <<print_losses>>
    /\ UNCHANGED lvars

\* the enqueuer's thread at the start of a pass: random.shuffle(sequence)
EnqShuffle ==
    /\ enq.running /\ enq.thread = "shuffle"
    /\ \E order \in Shuffles(enq.n) :
          enq' = [enq EXCEPT !.order = order, !.pass = Min(@ + 1, PassCap), !.pos = 1,
                             !.thread = IF enq.n = 0 THEN "wait" ELSE "submit"]
    /\ UNCHANGED <<gan, loader, weights, files, w_call, t_args, t_pc, epoch, batch, steps,
                   saves, t_raised>>
    /\ UNCHANGED <<print_losses>>
    /\ UNCHANGED lvars

\* the enqueuer's thread: executor.apply_async(get_index, (uid, i)), the
\* argument of queue.put, is evaluated before put can block
EnqApply ==
    /\ enq.running /\ enq.thread = "submit"
    /\ enq' = [enq EXCEPT !.tasks = Append(@, [idx |-> enq.order[enq.pos],
                                               pass |-> enq.pass, st |-> "pending"]),
                          !.held = 1, !.thread = "put"]
    /\ UNCHANGED <<gan, loader, weights, files, w_call, t_args, t_pc, epoch, batch, steps,
                   saves, t_raised>>
    /\ UNCHANGED <<print_losses>>
    /\ UNCHANGED lvars

\* the enqueuer's thread: queue.put(future, block=True)
EnqPut ==
    /\ enq.running /\ enq.thread = "put"
    /\ ~QueueFull(enq)
    /\ enq' = [enq EXCEPT !.held = 0, !.pos = @ + 1,
                          !.thread = IF enq.pos + 1 > enq.n THEN "wait" ELSE "submit"]
    /\ UNCHANGED <<gan, loader, weights, files, w_call, t_args, t_pc, epoch, batch, steps,
                   saves, t_raised>>
    /\ UNCHANGED <<print_losses>>
    /\ UNCHANGED lvars

\* the enqueuer's thread at the end of a pass: it waits until every future
\* put in the queue has been taken and its result given to the consumer
EnqWait ==
    /\ enq.running /\ enq.thread = "wait"
    /\ QueueSize(enq) + enq.got = 0
    /\ enq' = [enq EXCEPT !.thread = "shuffle"]
    /\ UNCHANGED <<gan, loader, weights, files, w_call, t_args, t_pc, epoch, batch, steps,
                   saves, t_raised>>
    /\ UNCHANGED <<print_losses>>
    /\ UNCHANGED lvars

\* a free thread of the pool starts the next task: loader[idx]
WorkerStart ==
    /\ enq.running
    /\ NextPending(enq) # 0
    /\ Cardinality(Running(enq)) < enq.workers
    /\ enq' = [enq EXCEPT !.tasks[NextPending(enq)].st = "running"]
    /\ UNCHANGED <<gan, loader, weights, files, w_call, t_args, t_pc, epoch, batch, steps,
                   saves, t_raised>>
    /\ UNCHANGED <<print_losses>>
    /\ UNCHANGED lvars

\* a thread of the pool finishes its task: loader[idx] has returned
WorkerFinish ==
    /\ enq.running
    /\ Returns(loader)
    /\ \E i \in Running(enq) : enq' = [enq EXCEPT !.tasks[i].st = "done"]
    /\ UNCHANGED <<gan, loader, weights, files, w_call, t_args, t_pc, epoch, batch, steps,
                   saves, t_raised>>
    /\ UNCHANGED <<print_losses>>
    /\ UNCHANGED lvars

\* line 508, next(output_generator): queue.get(block=True)
QueueGet ==
    /\ t_pc = "next"
    /\ QueueSize(enq) > 0
    /\ enq' = [enq EXCEPT !.got = 1]
    /\ t_pc' = "result"
    /\ UNCHANGED <<gan, loader, weights, files, w_call, t_args, epoch, batch, steps, saves,
                   t_raised>>
    /\ UNCHANGED <<print_losses>>
    /\ UNCHANGED lvars

\* line 508, next(output_generator): the future's get(), then task_done()
FutureGet ==
    /\ t_pc = "result"
    /\ enq.tasks[1].st = "done"
    /\ batch' = [idx |-> enq.tasks[1].idx, pass |-> enq.tasks[1].pass]
    /\ enq' = [enq EXCEPT !.tasks = Tail(@), !.got = 0]
    /\ t_pc' = "train"
    /\ UNCHANGED <<gan, loader, weights, files, w_call, t_args, epoch, steps, saves, t_raised>>
    /\ UNCHANGED <<print_losses>>
    /\ UNCHANGED lvars

\* lines 509-537: the network operations of the iteration, then
\* tensorboard.on_epoch_end, tensorboard being assigned only when
\* log_tensorboard_path is true (lines 464-475), then the loss histories
TrainOnBatch ==
    /\ t_pc = "train"
    /\ steps' = steps \o Iteration(epoch, batch)
    /\ weights' = Apply(Iteration(epoch, batch), weights, Collected("srgan" \in gan.networks))
    /\ t_raised' = IF TruthyStr(t_args.log_tensorboard_path) THEN "none"
                   ELSE "UnboundLocalError"
    /\ t_pc' = IF TruthyStr(t_args.log_tensorboard_path) THEN "plot" ELSE "raised"
    /\ print_losses' = IF TruthyStr(t_args.log_tensorboard_path)
                       THEN Accumulate(print_losses, epoch, t_args.print_frequency)
                       ELSE print_losses
    /\ UNCHANGED <<gan, loader, files, w_call, t_args, epoch, enq, batch, saves>>
    /\ UNCHANGED lvars

\* lines 551-554: plot_test_images when datapath_test is given and the
\* iteration is due
Plot ==
    /\ t_pc = "plot"
    /\ LET exc == IF t_args.datapath_test # <<>> /\ Due(t_args.log_test_frequency, epoch)
                  THEN plot_test_images(t_args.datapath_test)
                  ELSE "none"
       IN  /\ t_raised' = exc
           /\ t_pc' = IF exc = "none" THEN "save" ELSE "raised"
    /\ UNCHANGED <<gan, loader, weights, files, w_call, t_args, epoch, enq, batch, steps,
                   saves>>
    /\ UNCHANGED <<print_losses>>
    /\ UNCHANGED lvars

\* lines 556-560: save_weights when the iteration is due, then the next
\* iteration or the end of the loop
Save ==
    /\ t_pc = "save"
    /\ IF Due(t_args.log_weight_frequency, epoch)
       THEN /\ files' = Written(files,
                           save_weights(gan, weights,
                                        os_path_join(t_args.log_weight_path, t_args.dataname),
                                        epoch).written)
            /\ saves' = Append(saves, epoch)
       ELSE UNCHANGED <<files, saves>>
    /\ epoch' = epoch + 1
    /\ t_pc' = IF epoch + 1 < t_args.epochs + t_args.first_epoch THEN "next" ELSE "returned"
    /\ UNCHANGED <<gan, loader, weights, w_call, t_args, enq, batch, steps, t_raised>>
    /\ UNCHANGED <<print_losses>>
    /\ UNCHANGED lvars

TrainNext ==
    \/ TrainStart
    \/ EnqShuffle
    \/ EnqApply
    \/ EnqPut
    \/ EnqWait
    \/ WorkerStart
    \/ WorkerFinish
    \/ QueueGet
    \/ FutureGet
    \/ TrainOnBatch
    \/ Plot
    \/ Save

TrainSpec == TrainInit /\ [][TrainNext]_vars

\* ------------------------------------------------------------- properties

\* C1: SRGAN(...) with an upscaling factor outside {2, 4, 8} raises ValueError
\* and has built no network (generator, vgg, discriminator, srgan); with a
\* factor F in {2, 4, 8} it does not raise, and height_hr = height_lr * F and
\* width_hr = width_lr * F.
C1_FactorChecked ==
    gan_args # NoArgs =>
        IF gan_args.upscaling_factor \in {2, 4, 8}
        THEN /\ gan_raised = "none"
             /\ gan.height_hr = gan_args.height_lr * gan_args.upscaling_factor
             /\ gan.width_hr = gan_args.width_lr * gan_args.upscaling_factor
        ELSE /\ gan_raised = "ValueError"
             /\ gan.networks = {}

\* SRGAN(height_lr=2, width_lr=1, upscaling_factor=3) has raised
C1_Witness ==
    /\ gan_args = [height_lr |-> 2, width_lr |-> 1, upscaling_factor |-> 3]
    /\ gan_raised = "ValueError"

\* the layers of a generator, as (block, layer) positions
LayersOf(g) == UNION {{<<b, l>> : l \in 1..Len(g[b])} : b \in 1..Len(g)}

PlotCallers == {"plot_test_images", "plot_bigger_images", "compute_metric"}

\* C2: the generator built for F in {2, 4, 8} has exactly log2(F) upsampling
\* stages, each doubling height and width, and no other layer changes the
\* spatial size; every prediction has F times the height and F times the
\* width of its input.
C2_GeneratorScalesByF ==
    /\ Constructed =>
          LET g == build_generator(gan.upscaling_factor, gan.channels)
              ups == {p \in LayersOf(g) : g[p[1]][p[2]].op = "SubpixelConv2D"}
              convs == {p \in LayersOf(g) : g[p[1]][p[2]].op = "Conv2D"}
          IN  /\ 2 ^ Cardinality(ups) = gan.upscaling_factor
              /\ \A p \in ups : g[p[1]][p[2]].scale = 2
              /\ \A p \in convs : g[p[1]][p[2]].strides = 1
    /\ pc = "done" /\ call.caller \in PlotCallers =>
          /\ Len(imgs_sr) = Len(imgs_lr)
          /\ \A i \in 1..Len(imgs_sr) :
                LET input == IF call.caller = "plot_bigger_images"
                             THEN imgs_hr[i].shape ELSE imgs_lr[i].shape
                IN  /\ imgs_sr[i][1] = input[1] * gan.upscaling_factor
                    /\ imgs_sr[i][2] = input[2] * gan.upscaling_factor

\* plot_test_images has predicted 16x8 images from the 2x1 low-resolution
\* images of two 16x8 and 8x16 test images, with F = 8
C2_Witness ==
    /\ pc = "done" /\ call.caller = "plot_test_images"
    /\ gan.upscaling_factor = 8
    /\ Len(imgs_sr) = 2
    /\ imgs_lr[1].shape = <<2, 1, 3>> /\ imgs_sr[1] = <<16, 8, 3>>
    /\ imgs_lr[2].shape = <<1, 2, 3>> /\ imgs_sr[2] = <<8, 16, 3>>
\* whether the file at position i of FS loads and is at least as large as
\* the loader's high-resolution crop
ValidFor(ld, i) ==
    /\ FS[i].kind = "image"
    /\ FS[i].height >= ld.height_hr
    /\ FS[i].width >= ld.width_hr

\* the number of entries of the pool that are valid for the loader
NumValid(ld) == Cardinality({k \in 1..Len(ld.img_paths) : ValidFor(ld, ld.img_paths[k])})

\* C3: loader[idx] never holds more than batch_size pairs; when the pool
\* holds at least batch_size valid images it returns exactly batch_size
\* pairs; the i-th low-resolution image is the down-sampling of the i-th
\* high-resolution crop, every crop has shape (height_hr, width_hr) and every
\* low-resolution image (height_hr / scale, width_hr / scale).
C3_BatchOfExactlyB ==
    call.caller = "__getitem__" =>
        /\ Len(imgs_hr) <= loader.batch_size
        /\ Len(imgs_lr) = Len(imgs_hr)
        /\ pc = "done" /\ NumValid(loader) >= loader.batch_size =>
              Len(imgs_hr) = loader.batch_size
        /\ \A i \in 1..Len(imgs_hr) :
              /\ imgs_lr[i].of = imgs_hr[i]
              /\ imgs_hr[i].shape = <<loader.height_hr, loader.width_hr, 3>>
              /\ imgs_lr[i].shape[1] * loader.scale = loader.height_hr
              /\ imgs_lr[i].shape[2] * loader.scale = loader.width_hr
              /\ imgs_lr[i].shape[3] = 3

\* loader[idx] has returned a batch of two crops of two different files,
\* one crop per image, from a pool with two valid images or more
C3_Witness ==
    /\ pc = "done" /\ call.caller = "__getitem__"
    /\ loader.batch_size = 2 /\ loader.crops_per_image = 1
    /\ NumValid(loader) >= 2
    /\ Len(imgs_hr) = 2 /\ imgs_hr[1].path # imgs_hr[2].path

\* C4: len(loader) is floor(pool size / batch_size): the largest n with
\* n * batch_size <= pool size.
C4_LenIsFloor ==
    pc = "done" /\ call.caller = "__len__" =>
        /\ length >= 0
        /\ length * loader.batch_size <= Len(loader.img_paths)
        /\ Len(loader.img_paths) < (length + 1) * loader.batch_size

\* len(loader) has returned 0 for a pool of one file and batch_size 2
C4_Witness ==
    /\ pc = "done" /\ call.caller = "__len__"
    /\ Len(loader.img_paths) = 1 /\ loader.batch_size = 2 /\ length = 0
Indexed == call.caller = "__getitem__"

\* C5: loader[idx] raises nothing, for every idx >= 0; its cursor starts at
\* idx * batch_size, the test at the top of the loop resets it to 0 when it
\* is at or past the pool size and leaves it otherwise, every file read is
\* inside the pool, the cursor moves to the next file after each read, and
\* the loop is left exactly when batch_size crops are accumulated.
C5_CursorWrapsNoThrow ==
    [][ Indexed' =>
          /\ raised' = "none" /\ pc' # "raised"
          /\ pc \in {"idle", "done"} /\ pc' = "check" =>
                cur_idx' = call'.idx * loader.batch_size
          /\ pc = "check" =>
                /\ cur_idx' = IF cur_idx >= Len(loader.img_paths) THEN 0 ELSE cur_idx
                /\ pc' = "body" => Len(imgs_hr) < loader.batch_size
                /\ pc' = "done" => Len(imgs_hr) >= loader.batch_size
          /\ pc = "body" =>
                /\ Len(loader.img_paths) > 0 => cur_idx < Len(loader.img_paths)
                /\ cur_idx' = cur_idx + 1
      ]_vars

\* loader[1] with batch_size 2 on a pool of one file (idx >= len(loader),
\* the start index 2 is past the pool) has returned two crops of that file
C5_Witness ==
    /\ pc = "done" /\ Indexed
    /\ call.idx = 1 /\ loader.batch_size = 2 /\ Len(loader.img_paths) = 1
    /\ loader.crops_per_image = 1
    /\ Len(imgs_hr) = 2 /\ imgs_hr[1].path = imgs_hr[2].path

\* C6: in loader[idx], reading a file that does not load or is smaller than
\* the crop in height or in width adds no pair, keeps the pairs accumulated
\* so far, raises nothing, and the loop goes on with the next file.
C6_InvalidFileSkipped ==
    [][ /\ Indexed /\ pc = "body"
        /\ cur_idx < Len(loader.img_paths)
        /\ ~ValidFor(loader, loader.img_paths[cur_idx + 1])
        => /\ imgs_hr' = imgs_hr
           /\ imgs_lr' = imgs_lr
           /\ raised' = "none"
           /\ pc' = "check"
           /\ cur_idx' = cur_idx + 1
      ]_vars

\* loader[idx] holds one pair and has just gone past an image that is lower
\* than the crop
C6_Witness ==
    /\ pc = "check" /\ Indexed
    /\ Len(imgs_hr) = 1
    /\ cur_idx >= 1 /\ cur_idx <= Len(loader.img_paths)
    /\ FS[loader.img_paths[cur_idx]].kind = "image"
    /\ FS[loader.img_paths[cur_idx]].height < loader.height_hr
    /\ imgs_hr[1].path # loader.img_paths[cur_idx]
\* C7: loader[idx] on a pool with no valid file (an empty pool, or only
\* unreadable or undersized files) ends by raising an error to its caller.
C7_NoValidFileFails ==
    [](Indexed /\ pc \in {"check", "body"} /\ NumValid(loader) = 0
          => <>(raised # "none"))

\* C8: load_batch(img_paths=paths, training=False) on a non-empty list of
\* loadable paths returns one pair per path, the i-th from the i-th path,
\* with the high-resolution image at the file's own size, whatever
\* batch_size is.
C8_OnePairPerPath ==
    LET paths == call.img_paths.list
    IN  /\ call.caller \in PlotCallers /\ ~call.training
        /\ pc \in {"loaded", "done"}
        /\ paths # <<>>
        /\ \A k \in 1..Len(paths) : FS[paths[k]].kind = "image"
        => /\ Len(imgs_hr) = Len(paths)
           /\ Len(imgs_lr) = Len(paths)
           /\ \A i \in 1..Len(paths) :
                 /\ imgs_hr[i].path = paths[i]
                 /\ imgs_lr[i].of = imgs_hr[i]
                 /\ imgs_hr[i].shape = <<FS[paths[i]].height, FS[paths[i]].width, 3>>

\* plot_test_images has loaded both images of a test directory with a
\* loader of batch_size 1
C8_Witness ==
    /\ pc = "done" /\ call.caller = "plot_test_images"
    /\ loader.batch_size = 1
    /\ call.img_paths.list = <<7, 8>>
    /\ Len(imgs_hr) = 2
    /\ imgs_hr[1].shape = <<16, 8, 3>> /\ imgs_hr[2].shape = <<8, 16, 3>>

\* the extension of a file name: what follows its last dot
Extension(name) ==
    LET dots == {i \in 1..Len(name) : name[i] = "."}
    IN  IF dots = {} THEN <<>>
        ELSE SubSeq(name, (CHOOSE i \in dots : \A j \in dots : j <= i) + 1, Len(name))

\* C9: the pool is exactly the set of files under the root directory whose
\* extension is jpeg, jpg or png, compared case-insensitively.
C9_PoolIsByExtension ==
    loader # NoLoader =>
        {loader.img_paths[k] : k \in 1..Len(loader.img_paths)}
        = {i \in 1..Len(FS) :
              /\ IsPrefix(loader.datapath, FS[i].dir)
              /\ Lower(Extension(FS[i].name)) \in
                    {<<"j", "p", "e", "g">>, <<"j", "p", "g">>, <<"p", "n", "g">>}}

\* C10: every low-resolution image made with training enabled is
\* down-sampled with one of nearest, bilinear, bicubic, Lanczos, and every
\* one made with training disabled with bicubic.
C10_FilterByMode ==
    \A i \in 1..Len(imgs_lr) :
        IF call.training
        THEN imgs_lr[i].method \in {"NEAREST", "BILINEAR", "BICUBIC", "LANCZOS"}
        ELSE imgs_lr[i].method = "BICUBIC"
\* C16: load_weights with generator weights only changes the generator's
\* weights and leaves the discriminator's as they were; with discriminator
\* weights only it leaves the generator's as they were; a call whose
\* discriminator argument is absent raises nothing, and so does a call with
\* both arguments absent.
C16_LoadIsIndependent ==
    [][ w_call'.method = "load_weights" =>
          LET gw == w_call'.generator_weights
              dw == w_call'.discriminator_weights
          IN  /\ dw.is_none =>
                    /\ weights'["discriminator"] = weights["discriminator"]
                    /\ t_raised' = "none"
              /\ gw.is_none => weights'["generator"] = weights["generator"]
              /\ gw.is_none /\ dw.is_none => weights' = weights
              /\ ~gw.is_none /\ gw.text # "" =>
                    weights'["generator"] = [from |-> gw.text, updates |-> 0]
              /\ ~dw.is_none /\ dw.text # "" /\ t_raised' = "none" =>
                    weights'["discriminator"] = [from |-> dw.text, updates |-> 0]
              /\ weights'["vgg"] = weights["vgg"]
      ]_vars

\* generator weights have been loaded without discriminator weights: the
\* discriminator is at its initialization
C16_Witness ==
    /\ w_call.method = "load_weights"
    /\ w_call.generator_weights = Str("w.h5") /\ w_call.discriminator_weights = None
    /\ "discriminator" \in gan.networks
    /\ weights["generator"].from = "w.h5"
    /\ weights["discriminator"].from = "init"
    /\ t_raised = "none" /\ t_pc = "returned"
\* the batches the training loop has received, by iteration
Received == {[epoch |-> steps[i].epoch, batch |-> steps[i].batch] : i \in 1..Len(steps)}

\* the number of batches the training loop has taken from the enqueuer
Popped == Len(steps) \div 5 + (IF t_pc = "train" THEN 1 ELSE 0)

\* C11: the training loop never receives the batch of one index twice within
\* one pass of the enqueuer over the indices.
C11_OncePerPass ==
    /\ \A r, q \in Received : r.batch = q.batch => r.epoch = q.epoch
    /\ t_pc = "train" => \A r \in Received : r.batch # batch

\* two workers, a pass over two indices: the loop has received both batches
\* of the pass
C11_Witness ==
    /\ enq.workers = 2 /\ enq.n = 2
    /\ Len(steps) = 10
    /\ steps[1].batch.pass = steps[6].batch.pass
    /\ steps[1].batch.idx # steps[6].batch.idx

\* C12: once the training loop has taken len(loader) batches from the
\* enqueuer, every index in 0..len(loader)-1 has been produced, and received,
\* at least once.
C12_NoIndexStarved ==
    enq.running /\ enq.n >= 1 /\ Popped >= enq.n =>
        \A i \in 0..(enq.n - 1) :
            \/ \E r \in Received : r.batch.idx = i
            \/ t_pc = "train" /\ batch.idx = i

\* the second of two batches has just been taken, with one worker
C12_Witness ==
    /\ enq.n = 2 /\ enq.workers = 1
    /\ t_pc = "train" /\ Popped = 2
    /\ batch.idx # steps[1].batch.idx

C14_StoppedAtEnd ==
    t_args # NoTrainArgs /\ t_pc \in {"returned", "raised"} =>
        /\ ~enq.running
        /\ \A i \in 1..Len(enq.tasks) : enq.tasks[i].st = "done"

\* C15: the visualization step of an iteration never raises: the loop goes
\* on to the checkpoint step.
C15_PlotNeverRaises ==
    [][ t_pc = "plot" => t_pc' = "save" /\ t_raised' = "none" ]_vars

\* the iterations whose network operations were performed
Trained == {steps[i].epoch : i \in 1..Len(steps)}

\* the names of the files written
FileNames == {f.name : f \in files}

\* C17: the iterations train_srgan has gone through are saved exactly when
\* their index is a multiple of log_weight_frequency (never when it is None),
\* each as {prefix}_generator_{F}X_epoch{E}.h5 and
\* {prefix}_discriminator_{F}X_epoch{E}.h5.
C17_SavedAtMultiples ==
    t_args # NoTrainArgs =>
        \A e \in Trained :
            e < epoch \/ t_pc \in {"returned", "raised"} =>
                LET f == t_args.log_weight_frequency
                    due == f # 0 /\ e % f = 0
                    E == ToString(e)
                    g == "./data/weights/DIV2K_generator_4X_epoch" \o E \o ".h5"
                    d == "./data/weights/DIV2K_discriminator_4X_epoch" \o E \o ".h5"
                IN  /\ due <=> \E i \in 1..Len(saves) : saves[i] = e
                    /\ due <=> g \in FileNames
                    /\ due <=> d \in FileNames

\* C18: no call on the DataLoader changes it: the pool, its size, the batch
\* size, the crop sizes and the scale are after load_batch what they were
\* before, in every mode and whether or not files fail.
C18_LoaderUnchanged ==
    [][ loader # NoLoader => loader' = loader ]_vars

\* loader[idx] has returned a batch after skipping a file that does not load
C18_Witness ==
    /\ pc = "done" /\ call.caller = "__getitem__"
    /\ loader.img_paths = <<1, 2, 4, 5>>
    /\ Len(imgs_hr) = 2
    /\ imgs_hr[1].path = 1 /\ imgs_hr[2].path = 4

\* C19: a run of train_srgan with epochs = N that has ended has performed
\* exactly the iterations first_epoch .. first_epoch + N - 1, each on one
\* batch taken from the enqueuer, as generator.predict on the low-resolution
\* batch, discriminator step on (real, 1), discriminator step on
\* (generated, 0), vgg features of the real batch, composite step on
\* (low-resolution, [1, features]), in this order.
C19_NIterationsInOrder ==
    t_args # NoTrainArgs /\ t_pc \in {"returned", "raised"} /\ enq.n >= 1 =>
        /\ Len(steps) = 5 * t_args.epochs
        /\ \A k \in 0..(t_args.epochs - 1) :
              LET e == t_args.first_epoch + k
                  o == [j \in 1..5 |-> steps[5 * k + j]]
              IN  /\ \A j \in 1..5 : o[j].epoch = e /\ o[j].batch = o[1].batch
                  /\ o[1].op = "generator.predict" /\ o[1].x = "imgs_lr"
                  /\ o[2].op = "discriminator.train_on_batch"
                  /\ o[2].x = "imgs_hr" /\ o[2].y = "real"
                  /\ o[3].op = "discriminator.train_on_batch"
                  /\ o[3].x = "generated_hr" /\ o[3].y = "fake"
                  /\ o[4].op = "vgg.predict" /\ o[4].x = "imgs_hr"
                  /\ o[5].op = "srgan.train_on_batch"
                  /\ o[5].x = "imgs_lr" /\ o[5].y = "real, features_hr"

\* C20: after k iterations of train_srgan the generator has been updated k
\* times (by the composite steps only), the discriminator 2k times (by its
\* own steps only) and the feature extractor never.
C20_CompositeTrainsGenerator ==
    t_args # NoTrainArgs =>
        LET k == Len(steps) \div 5
        IN  /\ weights["generator"] = [from |-> "init", updates |-> k]
            /\ weights["discriminator"] = [from |-> "init", updates |-> 2 * k]
            /\ weights["vgg"] = [from |-> "imagenet", updates |-> 0]

\* two iterations have been performed
C20_Witness ==
    /\ Len(steps) = 10
    /\ weights["generator"].updates = 2
    /\ weights["discriminator"].updates = 4
\* the iterations whose losses the histories hold after iteration e: those
\* since the last multiple of print_frequency
SinceFlush(e) ==
    {i \in t_args.first_epoch..e : \A m \in i..e : m % t_args.print_frequency # 0}

\* C21: both loss histories gain one entry per iteration and are emptied at
\* every iteration that is a multiple of print_frequency: after iteration
\* e they hold the losses of the iterations since the last multiple, they
\* have the same length and never more than print_frequency entries.
C21_LossHistories ==
    t_args # NoTrainArgs =>
        /\ Len(print_losses.G) = Len(print_losses.D)
        /\ Len(print_losses.G) <= t_args.print_frequency
        /\ steps # <<>> =>
              LET held == SinceFlush(steps[Len(steps)].epoch)
              IN  /\ Len(print_losses.G) = Cardinality(held)
                  /\ {print_losses.G[i] : i \in 1..Len(print_losses.G)} = held
                  /\ print_losses.D = print_losses.G

\* C22: with no log_tensorboard_path the callback step of an iteration
\* raises nothing and the iteration goes on.
C22_NoLogPathRuns ==
    [][ t_pc = "train" /\ ~TruthyStr(t_args.log_tensorboard_path) =>
            t_raised' = "none" /\ t_pc' # "raised" ]_vars

\* C23: a call of load_batch with a list of paths returns.
C23_ExplicitTerminates ==
    [](~call.img_paths.is_none /\ pc \in {"check", "body"}
          => <>(pc \in {"loaded", "done"}))

====
